---- MODULE Spec2Model ----
(***************************************************************************)
(* Region partitioning of a charged structure into a three-region cluster  *)
(* (cluster/cluster.py, cluster/cmolecule.py) and tiling of a crystal's    *)
(* motif into a finite structure (cluster/crystal.py).                     *)
(*                                                                         *)
(* Python objects live in a heap: every list / numpy array is one heap     *)
(* object with an address, a CMolecule is the triple of addresses of its   *)
(* atoms list, xyz array and charges array.  Real numbers are exact:       *)
(* coordinates are integers, charges are fixed-point multiples of          *)
(* 1/ChargeUnit, distances are compared through their squares.  Positions  *)
(* and cell lengths of crystals are counted in halves, so that the motif   *)
(* position 0.5 is the integer 1.                                          *)
(***************************************************************************)
EXTENDS Integers, Sequences, FiniteSets, TLC

VARIABLES cmol, cluster, new_cluster, heap, call, crystal, tiled

vars == <<cmol, cluster, new_cluster, heap, call, crystal, tiled>>

(***************************************************************************)
(* Bounds of the model                                                     *)
(***************************************************************************)
\* longest input structure
MaxAtoms == 3
\* largest radius handed to from_radii
MaxRadius == 2
\* most indices handed to generate_from_indices, both sets together
MaxIndices == 4

RECURSIVE Fact(_)
Fact(n) == IF n <= 1 THEN 1 ELSE n * Fact(n - 1)

\* charges are stored as integer multiples of 1/ChargeUnit, so that the
\* division of recharged() by a number of atoms <= MaxAtoms is exact
ChargeUnit == Fact(MaxAtoms)

\* the atoms input structures are built from: label, position, charge
AtomPool ==
    { [atom |-> "H", xyz |-> <<0, 0, 0>>, charge |-> 0],
      [atom |-> "O", xyz |-> <<1, 0, 0>>, charge |-> 0 - ChargeUnit],
      [atom |-> "F", xyz |-> <<0, 2, 1>>, charge |-> ChargeUnit] }

Geoms == UNION { [1..n -> AtomPool] : n \in 0..MaxAtoms }

Centers == { <<0, 0, 0>>, <<1, 0, 0>> }
Radii == 0..MaxRadius
Extents == { <<1, 1, 1>>, <<2, 3, 2>>, <<3, 3, 3>> }
Targets == { 0, 3 * ChargeUnit }

\* index sets offered to generate_from_indices for a structure of n atoms:
\* in range, negative, equal to n and larger than n
IndexSets(n) ==
    { S \in SUBSET ((0 - 1)..(n + 1)) : Cardinality(S) <= MaxIndices }
Counts(n) == (0 - 1)..(n + 1)

None == [kind |-> "None"]

(***************************************************************************)
(* Sequences and numpy arrays                                              *)
(***************************************************************************)
Min(a, b) == IF a <= b THEN a ELSE b
Max(a, b) == IF a >= b THEN a ELSE b

\* itertools.compress / boolean-mask indexing: the elements of s whose mask
\* entry is true, in the order of s
Compress(s, mask) ==
    LET F[k \in 0..Len(s)] ==
            IF k = 0 THEN <<>>
            ELSE IF mask[k] THEN Append(F[k - 1], s[k]) ELSE F[k - 1]
    IN F[Len(s)]

\* sum(): left fold starting from the integer 0
Sum(s) ==
    LET F[k \in 0..Len(s)] == IF k = 0 THEN 0 ELSE F[k - 1] + s[k]
    IN F[Len(s)]

\* a heap object: a Python list or numpy array; ndim 1 has shape (n,),
\* ndim 2 has shape (n, 3)
Array(ndim, data) == [ndim |-> ndim, data |-> data]
Shape(o) == IF o.ndim = 1 THEN <<Len(o.data)>> ELSE <<Len(o.data), 3>>

\* numpy broadcasting of a source shape into a destination shape: aligned
\* on the last axis, every source axis has the destination's size or size 1
CanBroadcast(src, dst) ==
    /\ Len(src) <= Len(dst)
    /\ \A i \in 1..Len(src) :
          LET s == src[i]
              d == dst[Len(dst) - Len(src) + i]
          IN s = d \/ s = 1

\* Python slice normalisation of one bound against a length n
SliceBound(n, b) == IF b < 0 THEN Max(n + b, 0) ELSE Min(b, n)

\* dst[start:stop, ...] = src on an array of shape dstShape (rows in data);
\* "ValueError" when src cannot be broadcast into the slice
AssignSlice(dstShape, data, start, stop, src) ==
    LET n == Len(data)
        lo == SliceBound(n, start)
        hi == Max(SliceBound(n, stop), lo)
        sliceShape == <<hi - lo>> \o SubSeq(dstShape, 2, Len(dstShape))
    IN IF ~CanBroadcast(Shape(src), sliceShape)
       THEN [status |-> "ValueError", data |-> data]
       ELSE [status |-> "ok",
             data |-> [k \in 1..n |->
                          IF k > lo /\ k <= hi
                          THEN IF Len(src.data) = 1 THEN src.data[1]
                               ELSE src.data[k - lo]
                          ELSE data[k]]]

(***************************************************************************)
(* CMolecule                                                               *)
(***************************************************************************)
\* CMolecule.geom setter reached from CMolecule.__init__(geom): three fresh
\* heap objects; an empty geom leaves xyz = np.array([]) of shape (0,)
CMolecule(h, geom) ==
    LET base == Len(h)
        n == Len(geom)
    IN [mol |-> [atoms |-> base + 1, xyz |-> base + 2, charges |-> base + 3],
        heap |-> h \o << Array(1, [k \in 1..n |-> geom[k].atom]),
                         Array(IF n = 0 THEN 1 ELSE 2,
                               [k \in 1..n |-> geom[k].xyz]),
                         Array(1, [k \in 1..n |-> geom[k].charge]) >>]

\* len(mol): the number of atoms
MolLen(h, m) == Len(h[m.atoms].data)

\* CMolecule.__iter__: zip(atoms, xyz, charges)
MolIter(h, m) ==
    LET n == Min(Len(h[m.atoms].data),
                 Min(Len(h[m.xyz].data), Len(h[m.charges].data)))
    IN [k \in 1..n |-> [atom |-> h[m.atoms].data[k],
                        xyz |-> h[m.xyz].data[k],
                        charge |-> h[m.charges].data[k]]]

\* CMolecule.geom getter: fresh lists built from the iteration
MolGeom(h, m) == MolIter(h, m)

\* float(charge): the same value in the fixed-point representation
Float(c) == c

(***************************************************************************)
(* Cluster: construction from indices and ranges                           *)
(***************************************************************************)
\* Cluster(qc_mol, br_mol, pc_mol)
Cluster(qc_mol, br_mol, pc_mol) ==
    [kind |-> "Cluster", qc_mol |-> qc_mol, br_mol |-> br_mol, pc_mol |-> pc_mol]

\* the result of a call: status "ok" with a cluster and the heap after the
\* call, or the exception raised, with the heap left as it was
Ok(c, h) == [status |-> "ok", cluster |-> c, heap |-> h, overlap |-> {}]
Raise(exc, h) == [status |-> exc, cluster |-> None, heap |-> h, overlap |-> {}]

\* the loop of generate_from_indices counting the atoms from 1
RegionGeomsFromOne(geom, qc, br) ==
    LET n == Len(geom)
    IN [qc |-> Compress(geom, [k \in 1..n |-> k \in qc]),
        br |-> Compress(geom, [k \in 1..n |-> k \notin qc /\ k \in br]),
        pc |-> Compress(geom, [k \in 1..n |-> k \notin qc /\ k \notin br])]

\* the three region lists filled by the loop of generate_from_indices
RegionGeoms(geom, qc, br) ==
    LET n == Len(geom)
        conv == [k \in 1..n |-> [atom |-> geom[k].atom, xyz |-> geom[k].xyz,
                                 charge |-> Float(geom[k].charge)]]
    IN [qc |-> Compress(conv, [k \in 1..n |-> (k - 1) \in qc]),
        br |-> Compress(conv, [k \in 1..n |-> (k - 1) \notin qc /\ (k - 1) \in br]),
        pc |-> Compress(conv, [k \in 1..n |-> (k - 1) \notin qc /\ (k - 1) \notin br])]

\* set(qc) | set(br) in place of the intersection
OverlapUnion(qc, br) == qc \cup br

\* set(qc) & set(br)
Overlap(qc, br) == qc \cap br

\* Cluster.generate_from_indices(cmol, qc, br)
GenerateFromIndices(h, m, qc, br) ==
    LET n == MolLen(h, m)
        overlap == Overlap(qc, br)
    IN IF ~(\A q \in qc : q <= n) THEN Raise("AssertionError", h)
       ELSE IF ~(\A q \in br : q <= n) THEN Raise("AssertionError", h)
       ELSE IF overlap # {}
            THEN [Raise("ValueError", h) EXCEPT !.overlap = overlap]
       ELSE LET g == RegionGeoms(MolIter(h, m), qc, br)
                a == CMolecule(h, g.qc)
                b == CMolecule(a.heap, g.br)
                c == CMolecule(b.heap, g.pc)
            IN Ok(Cluster(a.mol, b.mol, c.mol), c.heap)

\* range(lo, hi)
Range(lo, hi) == { i \in lo..(hi - 1) : TRUE }

\* Cluster.generate_from_ranges(cmol, qc, br)
GenerateFromRanges(h, m, qc, br) ==
    IF ~(qc >= 0) THEN Raise("AssertionError", h)
    ELSE IF ~(qc <= br) THEN Raise("AssertionError", h)
    ELSE IF ~(br <= MolLen(h, m)) THEN Raise("AssertionError", h)
    ELSE GenerateFromIndices(h, m, Range(0, qc), Range(qc, qc + br))

(***************************************************************************)
(* Cluster: construction from radii and from rectangular prisms            *)
(***************************************************************************)
\* shapes of the two operands of an elementwise numpy operation agree:
\* aligned on the last axis, the sizes are equal or one of them is 1
BroadcastTogether(a, b) ==
    \A i \in 1..Min(Len(a), Len(b)) :
        LET x == a[Len(a) - i + 1]
            y == b[Len(b) - i + 1]
        IN x = y \/ x = 1 \/ y = 1

VecSub(a, b) == [i \in 1..3 |-> a[i] - b[i]]

\* the square of np.linalg.norm(xyz - center)
Dist2(xyz, center) ==
    LET d == VecSub(xyz, center)
    IN d[1] * d[1] + d[2] * d[2] + d[3] * d[3]

\* distance < radius in place of distance <= radius
DistLT(d2, radius) == radius > 0 /\ d2 < radius * radius

\* distance <= radius and radius < distance, for the distance >= 0 whose
\* square is d2
DistLE(d2, radius) == radius >= 0 /\ d2 <= radius * radius
DistGT(d2, radius) == radius < 0 \/ d2 > radius * radius

\* a CMolecule whose atoms, xyz and charges are set to fresh objects
MolOf(h, atoms, xyz, charges) ==
    LET base == Len(h)
    IN [mol |-> [atoms |-> base + 1, xyz |-> base + 2, charges |-> base + 3],
        heap |-> h \o << Array(1, atoms), xyz, Array(1, charges) >>]

\* one region of from_radii: boolean-mask indexing of xyz and charges,
\* itertools.compress of atoms
MaskedMol(h, m, region) ==
    MolOf(h, Compress(h[m.atoms].data, region),
          Array(2, Compress(h[m.xyz].data, region)),
          Compress(h[m.charges].data, region))

\* Cluster.from_radii(cmol, qc_radius, br_radius, center)
FromRadii(h, m, qc_radius, br_radius, center) ==
    IF ~BroadcastTogether(Shape(h[m.xyz]), <<3>>) THEN Raise("ValueError", h)
    ELSE
    LET n == Len(h[m.xyz].data)
        distances == [k \in 1..n |-> Dist2(h[m.xyz].data[k], center)]
        qc_region == [k \in 1..n |-> DistLE(distances[k], qc_radius)]
        br_region == [k \in 1..n |-> DistGT(distances[k], qc_radius)
                                      /\ DistLE(distances[k], br_radius)]
        pc_region == [k \in 1..n |-> DistGT(distances[k], br_radius)]
        a == MaskedMol(h, m, qc_region)
        b == MaskedMol(a.heap, m, br_region)
        c == MaskedMol(b.heap, m, pc_region)
    IN Ok(Cluster(a.mol, b.mol, c.mol), c.heap)

\* inside(xyz, abc) of from_rectangles
Inside(xyz, abc) ==
    \A i \in 1..3 : ~(xyz[i] <= 0 - abc[i] \/ abc[i] <= xyz[i])

\* inside_indices(cmol, abc) of from_rectangles
InsideIndices(h, m, abc) ==
    { i \in 0..(Len(h[m.xyz].data) - 1) : Inside(h[m.xyz].data[i + 1], abc) }

\* Cluster.from_rectangles(cmol, qc, br, center)
FromRectangles(h, m, qc, br, center) ==
    LET qc_indices == InsideIndices(h, m, VecSub(qc, center))
        br_indices == InsideIndices(h, m, VecSub(br, center)) \ qc_indices
        pc_indices == (Range(0, MolLen(h, m)) \ qc_indices) \ br_indices
        it == MolIter(h, m)
        sel(indices) == Compress(it, [k \in 1..Len(it) |-> (k - 1) \in indices])
        a == CMolecule(h, sel(qc_indices))
        b == CMolecule(a.heap, sel(br_indices))
        c == CMolecule(b.heap, sel(pc_indices))
    IN Ok(Cluster(a.mol, b.mol, c.mol), c.heap)

(***************************************************************************)
(* Cluster: derived properties                                             *)
(***************************************************************************)
\* Cluster.__len__
ClusterLen(h, c) ==
    Len(h[c.qc_mol.atoms].data) + Len(h[c.br_mol.atoms].data)
        + Len(h[c.pc_mol.atoms].data)

\* Cluster.__iter__
ClusterIter(h, c) ==
    MolIter(h, c.qc_mol) \o MolIter(h, c.br_mol) \o MolIter(h, c.pc_mol)

\* Cluster.atoms
ClusterAtoms(h, c) ==
    h[c.qc_mol.atoms].data \o h[c.br_mol.atoms].data \o h[c.pc_mol.atoms].data

\* the three slice assignments shared by Cluster.xyz and Cluster.charges:
\* [:len(qc)], [len(qc):len(qc)+len(br)] and [-len(pc):]
FillRegions(h, c, shape, zero, field) ==
    LET n == ClusterLen(h, c)
        q == MolLen(h, c.qc_mol)
        b == MolLen(h, c.br_mol)
        p == MolLen(h, c.pc_mol)
        s0 == [k \in 1..n |-> zero]
        s1 == AssignSlice(shape, s0, 0, q, h[c.qc_mol[field]])
        s2 == AssignSlice(shape, s1.data, q, q + b, h[c.br_mol[field]])
        s3 == AssignSlice(shape, s2.data, 0 - p, n, h[c.pc_mol[field]])
    IN IF s1.status # "ok" THEN s1
       ELSE IF s2.status # "ok" THEN s2
       ELSE s3

\* Cluster.xyz
ClusterXyz(h, c) ==
    FillRegions(h, c, <<ClusterLen(h, c), 3>>, <<0, 0, 0>>, "xyz")

\* Cluster.charges
ClusterCharges(h, c) ==
    FillRegions(h, c, <<ClusterLen(h, c)>>, 0, "charges")

\* Cluster.charge
ClusterCharge(h, c) ==
    LET charges == ClusterCharges(h, c)
    IN IF charges.status # "ok"
       THEN [status |-> charges.status, value |-> 0]
       ELSE [status |-> "ok", value |-> Sum(charges.data)]

(***************************************************************************)
(* Cluster.recharged and CMolecule.__setitem__                             *)
(***************************************************************************)
\* mol.charges = mol.charges + additional_charge: a fresh array, bound to
\* the molecule's charges attribute
AddCharge(h, m, additional_charge) ==
    LET old == h[m.charges].data
    IN [mol |-> [m EXCEPT !.charges = Len(h) + 1],
        heap |-> Append(h, Array(1, [k \in 1..Len(old) |->
                                        old[k] + additional_charge]))]

\* the region itself in place of its duplicate
DuplicateAlias(h, m) == [mol |-> m, heap |-> h]

\* the duplicate of one region made by recharged
Duplicate(h, m) == CMolecule(h, MolGeom(h, m))

\* Cluster.recharged(charge)
Recharged(h, self, charge) ==
    LET qc_mol == Duplicate(h, self.qc_mol)
        br_mol == Duplicate(qc_mol.heap, self.br_mol)
        pc_mol == Duplicate(br_mol.heap, self.pc_mol)
        h3 == pc_mol.heap
        total == ClusterCharge(h3, self)
        count == MolLen(h3, br_mol.mol) + MolLen(h3, pc_mol.mol)
    IN IF total.status # "ok" THEN Raise(total.status, h)
       ELSE IF count = 0 THEN Raise("ZeroDivisionError", h)
       ELSE LET additional_charge == (charge - total.value) \div count
                br2 == AddCharge(h3, br_mol.mol, additional_charge)
                pc2 == AddCharge(br2.heap, pc_mol.mol, additional_charge)
            IN Ok(Cluster(qc_mol.mol, br2.mol, pc2.mol), pc2.heap)

\* the atom written by the model's __setitem__ calls
NewAtom == [atom |-> "N", xyz |-> <<9, 9, 9>>, charge |-> 9 * ChargeUnit]

\* CMolecule.__setitem__(i, (atom, xyz, charge)): three writes in place
SetItem(h, m, i, a) ==
    [h EXCEPT ![m.atoms].data[i + 1] = a.atom,
              ![m.xyz].data[i + 1] = a.xyz,
              ![m.charges].data[i + 1] = a.charge]

(***************************************************************************)
(* The state machine: one input structure, one partitioning call, one      *)
(* recharge of the cluster, one write into a region                        *)
(***************************************************************************)
PartitionOps ==
    { "generate_from_indices", "generate_from_ranges", "from_radii",
      "from_rectangles" }

RegionNames == { "qc_mol", "br_mol", "pc_mol" }

Init ==
    \E geom \in Geoms :
        LET r == CMolecule(<<>>, geom)
        IN /\ cmol = r.mol
           /\ heap = r.heap
           /\ cluster = None
           /\ new_cluster = None
           /\ call = [op |-> "init", status |-> "ok"]
           /\ crystal = None
           /\ tiled = None

\* the effect of a partitioning call with result r
Partitioned(op, args, r) ==
    /\ cluster' = r.cluster
    /\ heap' = r.heap
    /\ call' = [op |-> op, status |-> r.status, args |-> args,
                overlap |-> r.overlap]
    /\ UNCHANGED <<cmol, new_cluster, crystal, tiled>>

generate_from_indices ==
    /\ call.op = "init"
    /\ \E qc \in IndexSets(MolLen(heap, cmol)) :
          \E br \in IndexSets(MolLen(heap, cmol)) :
             /\ Cardinality(qc) + Cardinality(br) <= MaxIndices
             /\ LET r == GenerateFromIndices(heap, cmol, qc, br)
                IN Partitioned("generate_from_indices",
                               [qc |-> qc, br |-> br], r)

generate_from_ranges ==
    /\ call.op = "init"
    /\ \E qc \in Counts(MolLen(heap, cmol)) :
          \E br \in Counts(MolLen(heap, cmol)) :
             LET r == GenerateFromRanges(heap, cmol, qc, br)
             IN Partitioned("generate_from_ranges", [qc |-> qc, br |-> br], r)

from_radii ==
    /\ call.op = "init"
    /\ \E qc_radius \in Radii :
          \E br_radius \in Radii :
             \E center \in Centers :
                LET r == FromRadii(heap, cmol, qc_radius, br_radius, center)
                IN Partitioned("from_radii",
                               [qc |-> qc_radius, br |-> br_radius,
                                center |-> center], r)

from_rectangles ==
    /\ call.op = "init"
    /\ \E qc \in Extents :
          \E br \in Extents :
             \E center \in Centers :
                LET r == FromRectangles(heap, cmol, qc, br, center)
                IN Partitioned("from_rectangles",
                               [qc |-> qc, br |-> br, center |-> center], r)

recharged ==
    /\ call.op \in PartitionOps
    /\ call.status = "ok"
    /\ \E charge \in Targets :
          LET r == Recharged(heap, cluster, charge)
          IN /\ new_cluster' = r.cluster
             /\ heap' = r.heap
             /\ call' = [op |-> "recharged", status |-> r.status,
                         args |-> [charge |-> charge], overlap |-> {}]
    /\ UNCHANGED <<cmol, cluster, crystal, tiled>>

setitem ==
    /\ call.op = "recharged"
    /\ call.status = "ok"
    /\ \E target \in { "cluster", "new_cluster" }, region \in RegionNames :
          LET c == IF target = "cluster" THEN cluster ELSE new_cluster
          IN \E i \in 0..(MolLen(heap, c[region]) - 1) :
                /\ heap' = SetItem(heap, c[region], i, NewAtom)
                /\ call' = [op |-> "setitem", status |-> "ok",
                            args |-> [target |-> target, region |-> region,
                                      i |-> i],
                            overlap |-> {}]
    /\ UNCHANGED <<cmol, cluster, new_cluster, crystal, tiled>>

Next ==
    \/ generate_from_indices
    \/ generate_from_ranges
    \/ from_radii
    \/ from_rectangles
    \/ recharged
    \/ setitem

Spec == Init /\ [][Next]_vars

(***************************************************************************)
(* Vocabulary of the properties                                            *)
(***************************************************************************)
\* the input structure and its length
Input == MolIter(heap, cmol)
InputIndices == 0..(Len(Input) - 1)

\* the atoms of one region of a cluster
Region(c, name) == MolIter(heap, c[name])

\* the k-th smallest index of the index set I
Nth(I, k) == CHOOSE i \in I : Cardinality({ j \in I : j < i }) = k - 1

\* r is exactly the atoms of s at the indices in I, in the order of s,
\* label, position and charge as in s
IsSelection(r, s, I) ==
    /\ Len(r) = Cardinality(I)
    /\ \A k \in 1..Len(r) : r[k] = s[Nth(I, k) + 1]

\* the three regions of the cluster are the atoms of the input at the
\* indices Q, B and P
RegionsAre(Q, B, P) ==
    /\ IsSelection(Region(cluster, "qc_mol"), Input, Q)
    /\ IsSelection(Region(cluster, "br_mol"), Input, B)
    /\ IsSelection(Region(cluster, "pc_mol"), Input, P)

RegionSizes ==
    Len(Region(cluster, "qc_mol")) + Len(Region(cluster, "br_mol"))
        + Len(Region(cluster, "pc_mol"))

(***************************************************************************)
(* C1 - C6: the four partitioning rules                                    *)
(***************************************************************************)
\* C1: for disjoint index sets Q, B within [0, len(s)),
\* generate_from_indices returns a cluster whose quantum region is the atoms
\* of s at Q, whose boundary region is the atoms at B and whose point-charge
\* region is the atoms at the remaining indices, each in the order of s and
\* unchanged; the region sizes sum to len(s).
C1_IndexSetsPartition ==
    ( /\ call.op = "generate_from_indices"
      /\ call.args.qc \cap call.args.br = {}
      /\ (call.args.qc \cup call.args.br) \subseteq InputIndices )
    => /\ call.status = "ok"
       /\ RegionsAre(call.args.qc, call.args.br,
                     InputIndices \ (call.args.qc \cup call.args.br))
       /\ RegionSizes = Len(Input)

\* a three-atom structure split into three non-empty regions, the quantum
\* index after the boundary index
C1_Witness ==
    /\ call.op = "generate_from_indices"
    /\ call.status = "ok"
    /\ Len(Input) = 3
    /\ call.args.qc = {2}
    /\ call.args.br = {0}
    /\ Len(Region(cluster, "pc_mol")) = 1

\* C2 as stated: whenever the two index sets share an index the call fails
\* with the overlap ValueError reporting exactly the shared indices and
\* returns no cluster; disjoint sets in range never raise it.
C2_OverlapAlwaysValueError ==
    call.op = "generate_from_indices"
    => /\ call.args.qc \cap call.args.br # {}
          => /\ call.status = "ValueError"
             /\ call.overlap = call.args.qc \cap call.args.br
             /\ cluster = None
       /\ ( /\ call.args.qc \cap call.args.br = {}
            /\ (call.args.qc \cup call.args.br) \subseteq InputIndices )
          => call.status # "ValueError"

\* C2 amended: whenever the two index sets share an index and no index of
\* either set exceeds len(s), the call fails with the overlap ValueError
\* reporting exactly the shared indices and returns no cluster; an index
\* above len(s) fails the range assertion first; disjoint sets never raise
\* the overlap error.
C2_OverlapRejected ==
    call.op = "generate_from_indices"
    => /\ ( /\ call.args.qc \cap call.args.br # {}
            /\ \A q \in call.args.qc \cup call.args.br : q <= Len(Input) )
          => /\ call.status = "ValueError"
             /\ call.overlap = call.args.qc \cap call.args.br
             /\ cluster = None
       /\ ( /\ call.args.qc \cap call.args.br # {}
            /\ \E q \in call.args.qc \cup call.args.br : q > Len(Input) )
          => /\ call.status = "AssertionError"
             /\ cluster = None
       /\ call.args.qc \cap call.args.br = {} => call.status # "ValueError"

\* the overlap example: {0, 1} and {1, 2} on three atoms report {1}
C2_Witness ==
    /\ call.op = "generate_from_indices"
    /\ Len(Input) = 3
    /\ call.args.qc = {0, 1}
    /\ call.args.br = {1, 2}
    /\ call.status = "ValueError"
    /\ call.overlap = {1}

\* C3: for quantum_count >= 0, boundary_count >= 0 and
\* quantum_count + boundary_count <= len(s), generate_from_ranges succeeds,
\* the quantum region is the atoms at [0, quantum_count), the boundary
\* region the boundary_count atoms at
\* [quantum_count, quantum_count + boundary_count), the point-charge region
\* the rest.
C3_RangesAreCounts ==
    ( /\ call.op = "generate_from_ranges"
      /\ call.args.qc >= 0
      /\ call.args.br >= 0
      /\ call.args.qc + call.args.br <= Len(Input) )
    => /\ call.status = "ok"
       /\ RegionsAre(0..(call.args.qc - 1),
                     call.args.qc..(call.args.qc + call.args.br - 1),
                     (call.args.qc + call.args.br)..(Len(Input) - 1))
       /\ Len(Region(cluster, "br_mol")) = call.args.br

\* the squared distance of input atom i from the centre of the call
AtomDist2(i) ==
    LET p == Input[i + 1].xyz
        c == call.args.center
    IN (p[1] - c[1]) * (p[1] - c[1]) + (p[2] - c[2]) * (p[2] - c[2])
           + (p[3] - c[3]) * (p[3] - c[3])

\* C4: with quantum_radius <= boundary_radius, from_radii puts an atom at
\* distance d in the quantum region iff d <= quantum_radius, in the boundary
\* region iff quantum_radius < d <= boundary_radius and in the point-charge
\* region iff d > boundary_radius, each region in the original order with
\* labels, positions and charges unchanged; the call returns a cluster for
\* every structure that has an atom.
C4_RadiiPlacement ==
    ( /\ call.op = "from_radii"
      /\ call.args.qc <= call.args.br )
    => /\ Len(Input) > 0 => call.status = "ok"
       /\ call.status = "ok"
          => RegionsAre(
                { i \in InputIndices : AtomDist2(i) <= call.args.qc * call.args.qc },
                { i \in InputIndices :
                     /\ AtomDist2(i) > call.args.qc * call.args.qc
                     /\ AtomDist2(i) <= call.args.br * call.args.br },
                { i \in InputIndices : AtomDist2(i) > call.args.br * call.args.br })

\* three atoms, one per region, the first exactly at the quantum radius and
\* the second exactly at the boundary radius
C4_Witness ==
    /\ call.op = "from_radii"
    /\ call.status = "ok"
    /\ call.args.qc < call.args.br
    /\ Len(Input) = 3
    /\ AtomDist2(0) = call.args.qc * call.args.qc
    /\ AtomDist2(1) = call.args.br * call.args.br
    /\ Len(Region(cluster, "qc_mol")) = 1
    /\ Len(Region(cluster, "br_mol")) = 1
    /\ Len(Region(cluster, "pc_mol")) = 1

\* C5: for every pair of radii, also quantum_radius > boundary_radius, the
\* three regions of from_radii are mutually exclusive and exhaustive: the
\* region sizes sum to len(structure), and with
\* quantum_radius > boundary_radius the boundary region is empty.
C5_RadiiMasksPartition ==
    ( /\ call.op = "from_radii"
      /\ call.status = "ok" )
    => /\ RegionSizes = Len(Input)
       /\ call.args.qc > call.args.br
          => Len(Region(cluster, "br_mol")) = 0

\* input atom i lies inside the box of half-extents h around the centre of
\* the call: every coordinate of (position - centre) strictly between -h
\* and h
InBox(i, h) ==
    \A ax \in 1..3 :
        LET d == Input[i + 1].xyz[ax] - call.args.center[ax]
        IN 0 - h[ax] < d /\ d < h[ax]

\* C6: for every centre, from_rectangles puts in the quantum region the
\* atoms inside the quantum box, in the boundary region the atoms inside
\* the boundary box that are not quantum, in the point-charge region all
\* others.
C6_RectanglesPlacement ==
    call.op = "from_rectangles"
    => /\ call.status = "ok"
       /\ RegionsAre(
             { i \in InputIndices : InBox(i, call.args.qc) },
             { i \in InputIndices :
                  InBox(i, call.args.br) /\ ~InBox(i, call.args.qc) },
             { i \in InputIndices :
                  ~InBox(i, call.args.br) /\ ~InBox(i, call.args.qc) })
       /\ RegionSizes = Len(Input)

(***************************************************************************)
(* C7 - C10: recharged and the derived properties                          *)
(***************************************************************************)
\* the charges of a sequence of atoms and their sum
ChargesOf(atoms) == [k \in 1..Len(atoms) |-> atoms[k].charge]
TotalCharge(c) ==
    Sum(ChargesOf(Region(c, "qc_mol") \o Region(c, "br_mol")
                      \o Region(c, "pc_mol")))

\* count(boundary) + count(point_charge) of the cluster recharged
NonQuantumCount ==
    Len(Region(cluster, "br_mol")) + Len(Region(cluster, "pc_mol"))

\* C7: for a cluster whose boundary and point-charge regions are not both
\* empty, recharged(T) returns a cluster in which every boundary and
\* point-charge charge is the original charge plus
\* (T - original total charge) / (count(boundary) + count(point_charge)),
\* so that the total charge of the result is T.
C7_RechargedReachesTarget ==
    ( /\ call.op = "recharged"
      /\ NonQuantumCount > 0 )
    => /\ call.status = "ok"
       /\ \A name \in { "br_mol", "pc_mol" } :
             /\ Len(Region(new_cluster, name)) = Len(Region(cluster, name))
             /\ \A k \in 1..Len(Region(cluster, name)) :
                   ( Region(new_cluster, name)[k].charge
                       - Region(cluster, name)[k].charge ) * NonQuantumCount
                   = call.args.charge - TotalCharge(cluster)
       /\ TotalCharge(new_cluster) = call.args.charge

\* the heap objects a molecule and a cluster are made of
MolAddresses(m) == { m.atoms, m.xyz, m.charges }
Addresses(c) == UNION { MolAddresses(c[name]) : name \in RegionNames }

\* the contents of the three regions of cluster c in heap h
ClusterValue(h, c) ==
    [name \in RegionNames |->
        << h[c[name].atoms], h[c[name].xyz], h[c[name].charges] >>]

LabelsAndPositions(atoms) ==
    [k \in 1..Len(atoms) |-> << atoms[k].atom, atoms[k].xyz >>]

\* C8: recharged writes to no object that existed before the call, so the
\* original cluster and the input structure keep their labels, positions
\* and charges; the returned cluster has the original's quantum region and
\* the original's boundary and point-charge labels and positions, and
\* shares no storage with the original; a later write into a region of one
\* of the two clusters leaves the other as it was.
C8_RechargedFrame ==
    [][ /\ (call'.op = "recharged" /\ call.op # "recharged")
           => /\ cluster' = cluster
              /\ cmol' = cmol
              /\ \A a \in 1..Len(heap) : heap'[a] = heap[a]
              /\ call'.status = "ok"
                 => /\ MolIter(heap', new_cluster'.qc_mol)
                          = MolIter(heap, cluster.qc_mol)
                    /\ \A name \in { "br_mol", "pc_mol" } :
                          LabelsAndPositions(MolIter(heap', new_cluster'[name]))
                             = LabelsAndPositions(MolIter(heap, cluster[name]))
                    /\ Addresses(new_cluster')
                          \cap (Addresses(cluster) \cup MolAddresses(cmol)) = {}
        /\ (call'.op = "setitem" /\ call.op # "setitem")
           => LET other == IF call'.args.target = "cluster"
                           THEN new_cluster ELSE cluster
              IN ClusterValue(heap', other) = ClusterValue(heap, other)
      ]_vars

\* an atom of the quantum region of the recharged cluster has been
\* overwritten, and the original's quantum region differs from it
C8_Witness ==
    /\ call.op = "setitem"
    /\ call.args.target = "new_cluster"
    /\ call.args.region = "qc_mol"
    /\ Region(cluster, "qc_mol") # Region(new_cluster, "qc_mol")
    /\ Len(Region(cluster, "br_mol")) > 0

\* C9: for a cluster whose boundary and point-charge regions are both
\* empty, recharged(T) fails with a division by zero and returns no cluster.
C9_RechargedDivisionError ==
    ( /\ call.op = "recharged"
      /\ NonQuantumCount = 0 )
    => /\ call.status = "ZeroDivisionError"
       /\ new_cluster = None

\* C10: for every cluster, also with empty regions, len is the sum of the
\* region sizes, and atoms, xyz, charges and iteration give the quantum
\* atoms, then the boundary atoms, then the point-charge atoms; charge is
\* the sum of all charges.
C10_DerivedProperties ==
    ( /\ call.op \in PartitionOps
      /\ call.status = "ok" )
    => LET all == Region(cluster, "qc_mol") \o Region(cluster, "br_mol")
                      \o Region(cluster, "pc_mol")
       IN /\ ClusterLen(heap, cluster) = RegionSizes
          /\ ClusterIter(heap, cluster) = all
          /\ ClusterAtoms(heap, cluster) = [k \in 1..Len(all) |-> all[k].atom]
          /\ ClusterCharges(heap, cluster)
                = [status |-> "ok", data |-> ChargesOf(all)]
          /\ ClusterCharge(heap, cluster)
                = [status |-> "ok", value |-> Sum(ChargesOf(all))]
          /\ ClusterXyz(heap, cluster)
                = [status |-> "ok", data |-> [k \in 1..Len(all) |-> all[k].xyz]]

(***************************************************************************)
(* Crystal (cluster/crystal.py)                                            *)
(*                                                                         *)
(* A family code is the sequence of its characters, 'oP' is <<"o", "P">>.  *)
(* A motif is the geom handed to the constructor: a list of [label,        *)
(* position].  Positions, cell lengths and cut points are counted in       *)
(* halves: the position 0.5 is 1, the cell length 1 is 2.                  *)
(***************************************************************************)
\* largest end index of a tiling range
MaxEnd == 2

SUPPORTED_GROUPS ==
    { <<"o", "P">>, <<"o", "S">>, <<"o", "I">>, <<"o", "F">>,
      <<"t", "P">>, <<"t", "I">>,
      <<"c", "P">>, <<"c", "I">>, <<"c", "F">> }

\* the literal list CubicCrystal.__init__ tests
CubicGroups == { <<"c", "P">>, <<"c", "I">>, <<"c", "F">> }

\* the literal list RectangularCrystal.__init__ tests
RectangularGroups ==
    { <<"o", "P">>, <<"o", "S">>, <<"o", "I">>, <<"o", "F">>,
      <<"t", "P">>, <<"t", "I">>,
      <<"c", "P">>, <<"c", "I">>, <<"c", "F">> }

ClassGroupsCubic(cls) == CubicGroups

\* self.SUPPORTED_GROUPS: the class attribute, which RectangularCrystal
\* defines again
ClassGroups(cls) ==
    IF cls = "RectangularCrystal" THEN RectangularGroups ELSE SUPPORTED_GROUPS

\* family codes offered to the constructors: the supported ones, the other
\* lattice families and a string that is no code
OtherGroups ==
    { <<"h", "P">>, <<"m", "P">>, <<"m", "S">>, <<"a", "P">>, <<"h", "R">>,
      <<"A", "A", "A">> }
Groups == SUPPORTED_GROUPS \cup OtherGroups

\* motifs
MotifHF == << [atom |-> "H", xyz |-> <<1, 1, 1>>],
              [atom |-> "F", xyz |-> <<0, 0, 0>>] >>
MotifFH == << [atom |-> "H", xyz |-> <<0, 0, 0>>],
              [atom |-> "F", xyz |-> <<1, 1, 1>>] >>
MotifF == << [atom |-> "F", xyz |-> <<1, 1, 1>>] >>
MotifFF == << [atom |-> "F", xyz |-> <<0, 0, 0>>],
              [atom |-> "F", xyz |-> <<1, 1, 0>>] >>
Motifs == { MotifHF, MotifFH, MotifF, MotifFF }

\* cell lengths (a, b, c): the unit cube and a cell with three lengths
UnitCell == <<2, 2, 2>>
CellSizes == { UnitCell, <<2, 4, 6>> }

\* collections.Counter over a list: the distinct entries in the order of
\* their first occurrence, each with its count
Counter(list) ==
    LET first == { k \in 1..Len(list) : \A j \in 1..(k - 1) : list[j] # list[k] }
    IN [n \in 1..Cardinality(first) |->
           LET k == CHOOSE i \in first :
                       Cardinality({ j \in first : j < i }) = n - 1
           IN [atom |-> list[k],
               count |-> Cardinality({ j \in 1..Len(list) : list[j] = list[k] })]]

\* Molecule(geom): the labels and the positions of geom, in its order
Molecule(geom) ==
    [atoms |-> [k \in 1..Len(geom) |-> geom[k].atom],
     xyz |-> [k \in 1..Len(geom) |-> geom[k].xyz]]

\* Crystal.__init__ run for an object of class cls: the fields, then the
\* test of the family code; atoms and xyz are those of self.molecule
Crystal(cls, a, b, c, alpha, beta, gamma, geom, space_group) ==
    LET molecule == Molecule(geom)
    IN IF space_group \notin ClassGroups(cls)
       THEN [status |-> "ValueError", crystal |-> None]
       ELSE [status |-> "ok",
             crystal |-> [cls |-> cls, a |-> a, b |-> b, c |-> c,
                          alpha |-> alpha, beta |-> beta, gamma |-> gamma,
                          atoms |-> molecule.atoms,
                          xyz |-> molecule.xyz,
                          name |-> Counter(molecule.atoms),
                          space_group |-> space_group]]

CubicCrystal(a, geom, space_group) ==
    IF space_group \notin CubicGroups
    THEN [status |-> "ValueError", crystal |-> None]
    ELSE Crystal("CubicCrystal", a, a, a, 90, 90, 90, geom, space_group)

RectangularCrystal(a, b, c, geom, space_group) ==
    IF space_group \notin RectangularGroups
    THEN [status |-> "ValueError", crystal |-> None]
    ELSE Crystal("RectangularCrystal", a, b, c, 90, 90, 90, geom, space_group)

\* list * n
Repeat(list, n) ==
    IF n <= 0 THEN <<>>
    ELSE [p \in 1..(Len(list) * n) |-> list[((p - 1) % Len(list)) + 1]]

\* the (i, j, k) the three nested loops of tile() visit, in their order
LoopCells(a1, a2, b1, b2, c1, c2) ==
    LET na == Max(a2 - a1, 0)
        nb == Max(b2 - b1, 0)
        nc == Max(c2 - c1, 0)
    IN [q \in 1..(na * nb * nc) |->
           << a1 + ((q - 1) \div (nb * nc)),
              b1 + (((q - 1) \div nc) % nb),
              c1 + ((q - 1) % nc) >>]

\* self.xyz*[self.a, self.b, self.c]
Scaled(xyz, self) ==
    [k \in 1..Len(xyz) |->
        << (xyz[k][1] * self.a) \div 2, (xyz[k][2] * self.b) \div 2,
           (xyz[k][3] * self.c) \div 2 >>]

SignedDistanceFromOrigin(cut, pos) ==
    cut.normal[1] * pos[1] + cut.normal[2] * pos[2] + cut.normal[3] * pos[3]

\* a*(x - x0) + b*(y - y0) + c*(z - z0) for the cut ((x0, y0, z0), (a, b, c))
SignedDistance(cut, pos) ==
    cut.normal[1] * (pos[1] - cut.point[1])
        + cut.normal[2] * (pos[2] - cut.point[2])
        + cut.normal[3] * (pos[3] - cut.point[3])

KeptNonNegative(cut, pos) == SignedDistance(cut, pos) >= 0

\* the test of the cut loop
Kept(cut, pos) == SignedDistance(cut, pos) < 0

TiledOk(atoms, xyz) ==
    [status |-> "ok", tiled |-> [atoms |-> atoms, xyz |-> xyz]]
TiledRaise(exc) == [status |-> exc, tiled |-> None]

\* the row of tiled_xyz the loops write at index p - 1: the motif position
\* plus cell_size*(i, j, k)
TiledRowNoOffset(xyz, self, cells, p) == xyz[((p - 1) % Len(xyz)) + 1]

TiledRow(xyz, self, cells, p) ==
    LET pos == xyz[((p - 1) % Len(xyz)) + 1]
        cell == cells[((p - 1) \div Len(xyz)) + 1]
    IN << pos[1] + self.a * cell[1], pos[2] + self.b * cell[2],
          pos[3] + self.c * cell[3] >>

\* Crystal.tile(a1, a2, b1, b2, c1, c2, ratio, **{kw: val}); kw is "" when
\* no keyword but ratio is given
Tile(self, a1, a2, b1, b2, c1, c2, ratio, kw, val) ==
    IF kw \notin { "", "cut" }
    THEN TiledRaise("TypeError")
    ELSE
    LET cut == IF kw = "cut" THEN val ELSE None
        xyz == IF ~ratio THEN self.xyz ELSE Scaled(self.xyz, self)
    IN IF self.space_group[1] \in { "o", "t", "c" }
       THEN LET atoms == Repeat(Repeat(Repeat(self.atoms, a2 - a1), b2 - b1),
                                c2 - c1)
                cells == LoopCells(a1, a2, b1, b2, c1, c2)
                tiled_xyz == [p \in 1..Len(atoms) |->
                                 TiledRow(xyz, self, cells, p)]
            IN IF cut # None
               THEN LET zipped == [p \in 1..Len(atoms) |->
                                      [atom |-> atoms[p], xyz |-> tiled_xyz[p]]]
                        Test(e) == Kept(cut, e.xyz)
                        kept == SelectSeq(zipped, Test)
                    IN TiledOk([p \in 1..Len(kept) |-> kept[p].atom],
                               [p \in 1..Len(kept) |-> kept[p].xyz])
               ELSE TiledOk(atoms, tiled_xyz)
       ELSE TiledRaise("NameError")

(***************************************************************************)
(* The state machine of a crystal: one construction, possibly one          *)
(* assignment to the public attribute space_group, one tiling              *)
(***************************************************************************)
Classes == { "Crystal", "CubicCrystal", "RectangularCrystal" }

\* constructor calls: every class with every family code, and every motif
\* in every cell for the code cP
CrystalArgs ==
    { [cls |-> cls, cell |-> UnitCell, geom |-> MotifHF, space_group |-> g] :
        cls \in Classes, g \in Groups }
    \cup
    { [cls |-> "Crystal", cell |-> cell, geom |-> geom,
       space_group |-> <<"c", "P">>] : cell \in CellSizes, geom \in Motifs }

\* the constructor call of the class args.cls
New(args) ==
    CASE args.cls = "Crystal" ->
           Crystal("Crystal", args.cell[1], args.cell[2], args.cell[3],
                   90, 90, 90, args.geom, args.space_group)
      [] args.cls = "CubicCrystal" ->
           CubicCrystal(args.cell[1], args.geom, args.space_group)
      [] args.cls = "RectangularCrystal" ->
           RectangularCrystal(args.cell[1], args.cell[2], args.cell[3],
                              args.geom, args.space_group)

\* family codes assigned to crystal.space_group after construction
AssignedGroups == { <<"h", "P">>, <<"m", "S">> }

\* tiling ranges (start, end) of one axis
Ranges == { <<0, e>> : e \in 0..MaxEnd } \cup { <<0 - 1, 1>> }

\* cut planes (point, normal)
Cut(point, normal) == [point |-> point, normal |-> normal]
CutOrigin == Cut(<<0, 0, 0>>, <<1, 1, 1>>)
CutFarAlong == Cut(<<18, 18, 18>>, <<1, 1, 1>>)
CutFarAgainst == Cut(<<0 - 18, 0 - 18, 0 - 18>>, <<1, 1, 1>>)
CutX == Cut(<<2, 0, 0>>, <<1, 0, 0>>)
CutY == Cut(<<0, 2, 0>>, <<0, 1, 0>>)
Cuts == { CutOrigin, CutFarAlong, CutFarAgainst, CutX, CutY }

\* lists of cut planes
CutLists == { <<>>, <<CutFarAlong>>, <<CutX, CutY>>,
              <<CutFarAlong, CutFarAgainst>> }

\* the keyword handed to tile() besides ratio, with its value
Keywords ==
    { [kw |-> "", val |-> None] }
    \cup { [kw |-> "cut", val |-> c] : c \in Cuts }
    \cup { [kw |-> "cuts", val |-> l] : l \in CutLists }

TileCall(ra, rb, rc, ratio, k) ==
    [a1 |-> ra[1], a2 |-> ra[2], b1 |-> rb[1], b2 |-> rb[2],
     c1 |-> rc[1], c2 |-> rc[2], ratio |-> ratio, kw |-> k.kw, val |-> k.val]

\* the tilings of nine cells along x and of 9 x 9 x 9 cells with one cut
LongCalls ==
    { TileCall(<<0, 9>>, <<0, 1>>, <<0, 1>>, FALSE, [kw |-> "cut", val |-> CutX]),
      TileCall(<<0, 9>>, <<0, 9>>, <<0, 9>>, FALSE, [kw |-> "cut", val |-> CutY]) }

TileArgs ==
    { TileCall(ra, rb, rc, ratio, k) :
        ra \in Ranges, rb \in Ranges, rc \in Ranges, ratio \in BOOLEAN,
        k \in Keywords }
    \cup LongCalls

InitTile ==
    /\ cmol = None
    /\ cluster = None
    /\ new_cluster = None
    /\ heap = <<>>
    /\ call = [op |-> "init", status |-> "ok"]
    /\ crystal = None
    /\ tiled = None

crystal_init ==
    /\ call.op = "init"
    /\ \E args \in CrystalArgs :
          LET r == New(args)
          IN /\ crystal' = r.crystal
             /\ call' = [op |-> "crystal_init", status |-> r.status,
                         args |-> args]
    /\ UNCHANGED <<cmol, cluster, new_cluster, heap, tiled>>

set_space_group ==
    /\ call.op = "crystal_init"
    /\ call.status = "ok"
    /\ \E g \in AssignedGroups :
          /\ crystal' = [crystal EXCEPT !.space_group = g]
          /\ call' = [op |-> "set_space_group", status |-> "ok",
                      args |-> [space_group |-> g]]
    /\ UNCHANGED <<cmol, cluster, new_cluster, heap, tiled>>

tile ==
    /\ call.op \in { "crystal_init", "set_space_group" }
    /\ call.status = "ok"
    /\ \E args \in TileArgs :
          LET r == Tile(crystal, args.a1, args.a2, args.b1, args.b2,
                        args.c1, args.c2, args.ratio, args.kw, args.val)
          IN /\ tiled' = r.tiled
             /\ call' = [op |-> "tile", status |-> r.status, args |-> args]
    /\ UNCHANGED <<cmol, cluster, new_cluster, heap, crystal>>

NextTile ==
    \/ crystal_init
    \/ set_space_group
    \/ tile

SpecTile == InitTile /\ [][NextTile]_vars

(***************************************************************************)
(* C11 - C15, C17: tiling, cut planes and family codes                     *)
(***************************************************************************)
\* the family codes of the orthorhombic, tetragonal and cubic lattices
FamilyCodes ==
    { <<"o", "P">>, <<"o", "S">>, <<"o", "I">>, <<"o", "F">>, <<"t", "P">>,
      <<"t", "I">>, <<"c", "P">>, <<"c", "I">>, <<"c", "F">> }

\* the finished tile() call and its arguments
Tiling == call.op = "tile"
NumA == call.args.a2 - call.args.a1
NumB == call.args.b2 - call.args.b1
NumC == call.args.c2 - call.args.c1
MotifLen == Len(crystal.atoms)

\* the motif position t as tile() uses it: multiplied by (a, b, c) in halves
\* when ratio is true
MotifPosition(t) ==
    IF call.args.ratio
    THEN << (crystal.xyz[t][1] * crystal.a) \div 2,
            (crystal.xyz[t][2] * crystal.b) \div 2,
            (crystal.xyz[t][3] * crystal.c) \div 2 >>
    ELSE crystal.xyz[t]

\* where atom t of cell (i, j, k) belongs in the row-major order of cells
PlaceOf(i, j, k, t) ==
    ((((i - call.args.a1) * NumB + (j - call.args.b1)) * NumC
        + (k - call.args.c1)) * MotifLen) + t

\* the position of atom t of cell (i, j, k)
Translated(i, j, k, t) ==
    << MotifPosition(t)[1] + i * crystal.a,
       MotifPosition(t)[2] + j * crystal.b,
       MotifPosition(t)[3] + k * crystal.c >>

\* the atoms the uncut tiling has, in its order: [atom, xyz]
UncutAtoms ==
    [p \in 1..(NumA * NumB * NumC * MotifLen) |->
        LET t == ((p - 1) % MotifLen) + 1
            q == (p - 1) \div MotifLen
            i == call.args.a1 + (q \div (NumB * NumC))
            j == call.args.b1 + ((q \div NumC) % NumB)
            k == call.args.c1 + (q % NumC)
        IN [atom |-> crystal.atoms[t], xyz |-> Translated(i, j, k, t)]]

\* the atoms of the returned structure: [atom, xyz]
TiledAtoms ==
    [p \in 1..Len(tiled.atoms) |-> [atom |-> tiled.atoms[p], xyz |-> tiled.xyz[p]]]

\* C11: for a crystal with a supported family code and a motif of m atoms,
\* tile(a1, a2, b1, b2, c1, c2) without cut returns (a2-a1)*(b2-b1)*(c2-c1)*m
\* atoms (none when a range is empty), the cells in row-major (i, j, k)
\* order and the motif order within each cell; every atom has the label of
\* its motif atom and the motif position, multiplied by (a, b, c) when ratio
\* is true, plus (i*a, j*b, k*c); tile(0, 1, 0, 1, 0, 1) gives the motif.
C11_TileUncut ==
    ( /\ Tiling
      /\ call.args.kw = ""
      /\ crystal.space_group \in FamilyCodes )
    => /\ call.status = "ok"
       /\ Len(tiled.atoms) = NumA * NumB * NumC * MotifLen
       /\ Len(tiled.xyz) = Len(tiled.atoms)
       /\ \A i \in call.args.a1..(call.args.a2 - 1) :
             \A j \in call.args.b1..(call.args.b2 - 1) :
                \A k \in call.args.c1..(call.args.c2 - 1) :
                   \A t \in 1..MotifLen :
                      /\ tiled.atoms[PlaceOf(i, j, k, t)] = crystal.atoms[t]
                      /\ tiled.xyz[PlaceOf(i, j, k, t)] = Translated(i, j, k, t)
       /\ ( /\ call.args.a1 = 0 /\ call.args.a2 = 1
            /\ call.args.b1 = 0 /\ call.args.b2 = 1
            /\ call.args.c1 = 0 /\ call.args.c2 = 1
            /\ ~call.args.ratio )
          => /\ tiled.atoms = crystal.atoms
             /\ tiled.xyz = crystal.xyz

\* an uncut 2 x 2 x 2 tiling, ratio true, of a two-atom motif in a cell of
\* three different lengths
C11_Witness ==
    /\ Tiling
    /\ call.status = "ok"
    /\ call.args.kw = ""
    /\ call.args.ratio
    /\ NumA = 2 /\ NumB = 2 /\ NumC = 2
    /\ crystal.space_group \in FamilyCodes
    /\ crystal.a # crystal.b /\ crystal.b # crystal.c
    /\ MotifLen = 2
    /\ Len(tiled.atoms) = 16
    /\ tiled.xyz[16] # tiled.xyz[2]

\* the signed distance (pos - point).normal of a position from a cut plane,
\* up to the positive factor |normal|
PlaneSide(cut, pos) ==
    (pos[1] - cut.point[1]) * cut.normal[1]
        + (pos[2] - cut.point[2]) * cut.normal[2]
        + (pos[3] - cut.point[3]) * cut.normal[3]

\* the atoms of the uncut tiling that pass every cut of the list cuts, in
\* the order of the uncut tiling
PassingAll(cuts) ==
    LET Passes(e) == \A n \in 1..Len(cuts) : PlaneSide(cuts[n], e.xyz) < 0
    IN SelectSeq(UncutAtoms, Passes)

\* C12: tile() accepts a list of zero or more cut planes under the keyword
\* cuts and returns, in the order of the uncut tiling, exactly the atoms
\* that pass every cut of the list: the uncut tiling for an empty list or
\* for cuts that remove nothing, the empty structure when some cut excludes
\* every atom.
C12_CutsConjunction ==
    ( /\ Tiling
      /\ call.args.kw = "cuts"
      /\ crystal.space_group \in FamilyCodes )
    => /\ call.status = "ok"
       /\ tiled # None
       /\ TiledAtoms = PassingAll(call.args.val)

\* a finished tile() call with the single plane cut, on a crystal with a
\* supported family code
SingleCut ==
    /\ Tiling
    /\ call.args.kw = "cut"
    /\ crystal.space_group \in FamilyCodes

\* the atoms of the uncut tiling on the side of the plane where the signed
\* distance is negative / is not negative
NegativeSide(cut) ==
    LET Test(e) == PlaneSide(cut, e.xyz) < 0
    IN SelectSeq(UncutAtoms, Test)
NonNegativeSide(cut) ==
    LET Test(e) == PlaneSide(cut, e.xyz) >= 0
    IN SelectSeq(UncutAtoms, Test)

\* the motif [H (0,0,0), F (.5,.5,.5)] in the unit cube, tiled over
\* (0,2) x (0,2) x (0,2) and cut through (0,0,0) with normal (1,1,1)
OriginCutCall ==
    /\ SingleCut
    /\ crystal.atoms = <<"H", "F">>
    /\ crystal.xyz = << <<0, 0, 0>>, <<1, 1, 1>> >>
    /\ <<crystal.a, crystal.b, crystal.c>> = UnitCell
    /\ <<call.args.a1, call.args.a2>> = <<0, 2>>
    /\ <<call.args.b1, call.args.b2>> = <<0, 2>>
    /\ <<call.args.c1, call.args.c2>> = <<0, 2>>
    /\ call.args.val = CutOrigin

\* C13 as stated: tile() with a cut plane (point, normal) keeps an atom
\* exactly when its signed distance (atom - point).normal is not negative;
\* the cut through (0,0,0) with normal (1,1,1) of the 2 x 2 x 2 tiling of
\* [H (0,0,0), F (.5,.5,.5)] keeps all 16 atoms.
C13_KeepsNonNegative ==
    SingleCut
    => /\ call.status = "ok"
       /\ TiledAtoms = NonNegativeSide(call.args.val)
       /\ OriginCutCall => Len(tiled.atoms) = 16

\* C13 amended: tile() with a cut plane (point, normal) keeps an atom
\* exactly when its signed distance (atom - point).normal is negative, in
\* the order of the uncut tiling; the cut through (0,0,0) with normal
\* (1,1,1) of the 2 x 2 x 2 tiling of [H (0,0,0), F (.5,.5,.5)] keeps none of
\* the 16 atoms.
C13_KeepsNegative ==
    SingleCut
    => /\ call.status = "ok"
       /\ TiledAtoms = NegativeSide(call.args.val)
       /\ OriginCutCall
          => /\ Len(UncutAtoms) = 16
             /\ tiled.atoms = <<>>
             /\ tiled.xyz = <<>>

\* the cut through the origin has emptied the 2 x 2 x 2 tiling
C13_Witness ==
    /\ OriginCutCall
    /\ call.status = "ok"
    /\ Len(NonNegativeSide(call.args.val)) = 16
    /\ tiled.atoms = <<>>

\* C14: constructing a Crystal with a family code outside the nine
\* supported codes fails with ValueError and yields no object, every one of
\* the nine codes is accepted; CubicCrystal rejects every code outside
\* {cP, cI, cF} and RectangularCrystal every code outside the nine, both
\* with ValueError and without an object.
C14_FamilyCodeValidated ==
    call.op = "crystal_init"
    => LET g == call.args.space_group
           accepted == IF call.args.cls = "CubicCrystal"
                       THEN { <<"c", "P">>, <<"c", "I">>, <<"c", "F">> }
                       ELSE FamilyCodes
       IN /\ g \notin accepted
             => /\ call.status = "ValueError"
                /\ crystal = None
          /\ g \in accepted
             => /\ call.status = "ok"
                /\ crystal # None
                /\ crystal.space_group = g

\* CubicCrystal has rejected a code that Crystal supports
C14_Witness ==
    /\ call.op = "crystal_init"
    /\ call.args.cls = "CubicCrystal"
    /\ call.args.space_group = <<"o", "I">>
    /\ call.status = "ValueError"
    /\ crystal = None

\* C15: tile() on a crystal whose family code does not begin with 'o', 't'
\* or 'c' fails with NotImplementedError, no other kind of exception, and
\* returns no structure.
C15_UnsupportedTileError ==
    ( /\ Tiling
      /\ call.args.kw \in { "", "cut" }
      /\ crystal.space_group[1] \notin { "o", "t", "c" } )
    => /\ call.status = "NotImplementedError"
       /\ tiled = None

\* the crystal of the tests: motif [H (.5,.5,.5), F (0,0,0)] in the unit cube
TestCrystal ==
    /\ crystal.atoms = <<"H", "F">>
    /\ crystal.xyz = << <<1, 1, 1>>, <<0, 0, 0>> >>
    /\ <<crystal.a, crystal.b, crystal.c>> = UnitCell

\* the ranges of the finished tile() call
CallRanges ==
    << call.args.a1, call.args.a2, call.args.b1, call.args.b2,
       call.args.c1, call.args.c2 >>

\* C17: with a single cut (point, normal), tile() keeps an atom exactly when
\* (pos - point).normal is strictly negative: an atom on the plane is
\* removed, a plane far out along its normal removes nothing, a plane far
\* out against its normal removes every atom; 9 x 1 x 1 cells of the motif
\* [H (.5,.5,.5), F (0,0,0)] cut at point (1,0,0) with normal (1,0,0) leave
\* exactly the motif, 9 x 9 x 9 cells cut at (0,1,0) with normal (0,1,0)
\* leave 162 atoms.
C17_SingleCutStrict ==
    SingleCut
    => LET cut == call.args.val
       IN /\ call.status = "ok"
          /\ \A q \in 1..Len(tiled.xyz) : PlaneSide(cut, tiled.xyz[q]) < 0
          /\ TiledAtoms = NegativeSide(cut)
          /\ cut = CutFarAlong => TiledAtoms = UncutAtoms
          /\ cut = CutFarAgainst => tiled.atoms = <<>> /\ tiled.xyz = <<>>
          /\ ( /\ TestCrystal
               /\ CallRanges = <<0, 9, 0, 1, 0, 1>>
               /\ cut = CutX )
             => /\ tiled.atoms = crystal.atoms
                /\ tiled.xyz = crystal.xyz
          /\ ( /\ TestCrystal
               /\ CallRanges = <<0, 9, 0, 9, 0, 9>>
               /\ cut = CutY )
             => Len(tiled.atoms) = 162

\* the 9 x 9 x 9 tiling cut at (0,1,0): atoms lay on the plane, 162 are left
C17_Witness ==
    /\ SingleCut
    /\ call.status = "ok"
    /\ TestCrystal
    /\ CallRanges = <<0, 9, 0, 9, 0, 9>>
    /\ call.args.val = CutY
    /\ Len(NonNegativeSide(CutY)) > 0
    /\ Len(tiled.atoms) = 162

(***************************************************************************)
(* C16, C18: validation of counts and indices                              *)
(***************************************************************************)
\* C16: every generate_from_ranges call with quantum_count < 0,
\* boundary_count < 0 or quantum_count + boundary_count > len(s) fails and
\* returns no cluster; no returned cluster has a boundary region of fewer
\* atoms than boundary_count.
C16_RangesValidated ==
    call.op = "generate_from_ranges"
    => /\ ( \/ call.args.qc < 0
            \/ call.args.br < 0
            \/ call.args.qc + call.args.br > Len(Input) )
          => /\ call.status # "ok"
             /\ cluster = None
       /\ call.status = "ok"
          => Len(Region(cluster, "br_mol")) >= call.args.br

\* C18: every generate_from_indices call in which an index of either set
\* lies outside [0, len(s)) fails and returns no cluster; in every returned
\* cluster the quantum region has exactly |Q| atoms and the boundary region
\* exactly |B|.
C18_IndicesValidated ==
    call.op = "generate_from_indices"
    => /\ (call.args.qc \cup call.args.br) \ InputIndices # {}
          => /\ call.status # "ok"
             /\ cluster = None
       /\ call.status = "ok"
          => /\ Len(Region(cluster, "qc_mol")) = Cardinality(call.args.qc)
             /\ Len(Region(cluster, "br_mol")) = Cardinality(call.args.br)
====
